---- MODULE Spec2Model ----
(***************************************************************************)
(* Model of word_counter.py: CleanInput, UniqueWords and Diagram.          *)
(*                                                                         *)
(* A Python str is a sequence of one-character strings.  A Counter is the  *)
(* sequence of its <<word, count>> items in insertion order (a dict keeps  *)
(* the order in which keys were first inserted).  An Optional[str] is a    *)
(* sequence of length 0 (None) or 1.                                       *)
(***************************************************************************)
EXTENDS Integers, Sequences, FiniteSets, TLC

VARIABLES
  user,     \* self.user, the raw input
  op,       \* the operation performed last
  arg,      \* what that operation was given (string, n, filename)
  ret,      \* what it returned
  raised,   \* the exception it propagated, or NoException
  printed,  \* the lines it printed on the standard output
  fs,       \* the file system: filename -> None or <<text>>
  stdin,    \* TRUE while the standard input can still deliver a line
  existed   \* save_report only: open() truncated a non-empty file

vars == <<user, op, arg, ret, raised, printed, fs, stdin, existed>>

-----------------------------------------------------------------------------
(* Bounds of the model.                                                    *)

MaxTokens == 2      \* generated inputs hold at most this many words
MaxN == 3           \* n of most_common / bar_chart ranges over -1..MaxN

-----------------------------------------------------------------------------
(* Python values.                                                          *)

None == <<>>
Some(x) == <<x>>

NoException == "NoException"
EOFError == "EOFError"
OSError == "OSError"

\* str.strip() and str.split() without arguments work on whitespace
Whitespace == {" ", "\t", "\n", "\r", "\f"}

UpperCase == <<"A","B","C","D","E","F","G","H","I","J","K","L","M",
               "N","O","P","Q","R","S","T","U","V","W","X","Y","Z">>
LowerCase == <<"a","b","c","d","e","f","g","h","i","j","k","l","m",
               "n","o","p","q","r","s","t","u","v","w","x","y","z">>

LowerChar(c) ==
  IF \E i \in 1..Len(UpperCase) : UpperCase[i] = c
  THEN LowerCase[CHOOSE i \in 1..Len(UpperCase) : UpperCase[i] = c]
  ELSE c

\* str.lower()
lower(s) == [i \in 1..Len(s) |-> LowerChar(s[i])]

RECURSIVE lstrip(_)
lstrip(s) ==
  IF s # <<>> /\ Head(s) \in Whitespace THEN lstrip(Tail(s)) ELSE s

RECURSIVE rstrip(_)
rstrip(s) ==
  IF s # <<>> /\ s[Len(s)] \in Whitespace
  THEN rstrip(SubSeq(s, 1, Len(s) - 1)) ELSE s

\* str.strip()
strip_keeps_trailing(s) == lstrip(s)
strip(s) == rstrip(lstrip(s))

RECURSIVE SplitScan(_, _, _, _)
SplitScan(s, i, cur, acc) ==
  IF i > Len(s)
  THEN IF cur = <<>> THEN acc ELSE Append(acc, cur)
  ELSE IF s[i] \in Whitespace
       THEN SplitScan(s, i + 1, <<>>, IF cur = <<>> THEN acc ELSE Append(acc, cur))
       ELSE SplitScan(s, i + 1, Append(cur, s[i]), acc)

\* str.split(): the maximal runs of non-whitespace characters
split(s) == SplitScan(s, 1, <<>>, <<>>)

\* the position of key w in a Counter, 0 when absent
KeyIndex(cnt, w) ==
  IF \E i \in 1..Len(cnt) : cnt[i][1] = w
  THEN CHOOSE i \in 1..Len(cnt) : cnt[i][1] = w
  ELSE 0

CountOneOnce(cnt, w) ==
  IF KeyIndex(cnt, w) = 0 THEN Append(cnt, <<w, 1>>) ELSE cnt

CountOne(cnt, w) ==
  IF KeyIndex(cnt, w) = 0
  THEN Append(cnt, <<w, 1>>)
  ELSE [cnt EXCEPT ![KeyIndex(cnt, w)] = <<w, @[2] + 1>>]

RECURSIVE CounterFrom(_, _)
CounterFrom(cnt, words) ==
  IF words = <<>> THEN cnt
  ELSE CounterFrom(CountOne(cnt, Head(words)), Tail(words))

\* collections.Counter(words)
Counter(words) == CounterFrom(<<>>, words)

\* sorted(items, key=itemgetter(1), reverse=True): stable, so equal counts
\* keep their insertion order
InsertDesc(sorted, e) ==
  LET k == Cardinality({i \in 1..Len(sorted) : sorted[i][2] >= e[2]})
  IN  SubSeq(sorted, 1, k) \o <<e>> \o SubSeq(sorted, k + 1, Len(sorted))

RECURSIVE SortFrom(_, _)
SortFrom(sorted, items) ==
  IF items = <<>> THEN sorted
  ELSE SortFrom(InsertDesc(sorted, Head(items)), Tail(items))

SortedDesc(cnt) == SortFrom(<<>>, cnt)

Min(x, y) == IF x <= y THEN x ELSE y
Max(x, y) == IF x >= y THEN x ELSE y

\* Counter.most_common(n): heapq.nlargest(n, items, key=count), which is
\* sorted(items, key=count, reverse=True)[:n] for n >= 0 and [] for n < 0
CounterMostCommonSlice(cnt, n) ==
  LET s == SortedDesc(cnt)
  IN  SubSeq(s, 1, IF n < 0 THEN Len(s) + n ELSE Min(n, Len(s)))

CounterMostCommon(cnt, n) ==
  IF n <= 0 THEN <<>>
  ELSE SubSeq(SortedDesc(cnt), 1, Min(n, Len(cnt)))

\* Counter.most_common(): every item
CounterMostCommonAll(cnt) == SortedDesc(cnt)

\* str(count) of a non-negative int
Digits == <<"0","1","2","3","4","5","6","7","8","9">>

RECURSIVE Str(_)
Str(k) ==
  IF k < 10 THEN <<Digits[k + 1]>>
  ELSE Str(k \div 10) \o <<Digits[(k % 10) + 1]>>

Spaces(k) == [i \in 1..k |-> " "]
Repeat(c, k) == [i \in 1..k |-> c]

\* format(word, str(width)): left-aligned, padded with spaces up to width,
\* never shortened
FormatTruncating(word, width) ==
  SubSeq(word \o Spaces(width), 1, width)

Format(word, width) ==
  word \o Spaces(Max(0, width - Len(word)))

-----------------------------------------------------------------------------
(* word_counter.py                                                         *)

the == <<"t","h","e">>
and == <<"a","n","d">>
of == <<"o","f">>
to == <<"t","o">>
a == <<"a">>
in == <<"i","n">>
is == <<"i","s">>
it == <<"i","t">>
you == <<"y","o","u">>
that == <<"t","h","a","t">>

STOP_WORDS == {the, and, of, to, a, in, is, it, you, that}

\* CleanInput.__init__: self.user = user
init_user(s) == s

\* CleanInput.take_input_string: self.user = input(...), the line as typed
input_user_stripped(line) == strip(line)
input_user(line) == line

\* CleanInput.clean_user
clean_user(u) == strip(lower(u))

\* UniqueWords.word_frequency
word_frequency(u) == Counter(split(clean_user(u)))

\* UniqueWords.most_common
most_common(u, n) == CounterMostCommon(word_frequency(u), n)

\* len(set(words))
Distinct(words) == Cardinality({words[i] : i \in 1..Len(words)})

\* UniqueWords.stats
stats(u) ==
  LET words == split(clean_user(u))
  IN  [total_words |-> Len(words), unique_words |-> Distinct(words)]

report_width == 15
save_width == 15
chart_width == 10
most_common_default == 5
bar_chart_default == 10

\* f"{word:15} {count}"
ReportLineUnpadded(item, width) == item[1] \o <<" ">> \o Str(item[2])
ReportLine(item, width) == Format(item[1], width) \o <<" ">> \o Str(item[2])

\* UniqueWords.report: the lines it prints
report(u) ==
  LET items == CounterMostCommonAll(word_frequency(u))
  IN  [i \in 1..Len(items) |-> ReportLine(items[i], report_width)]

\* [w for w in words if w not in STOP_WORDS]
NoFilter(words) == words

RECURSIVE NotStopWords(_)
NotStopWords(words) ==
  IF words = <<>> THEN <<>>
  ELSE IF Head(words) \notin STOP_WORDS
       THEN <<Head(words)>> \o NotStopWords(Tail(words))
       ELSE NotStopWords(Tail(words))

\* Diagram.filtered_frequency
filtered_frequency(u) == Counter(NotStopWords(split(clean_user(u))))

\* f"{word:10} {'#' * count}"
ChartLine(item) == Format(item[1], chart_width) \o <<" ">> \o Repeat("#", item[2])

\* Diagram.bar_chart: the lines it prints
bar_chart(u, n) ==
  LET freq == CounterMostCommon(filtered_frequency(u), n)
  IN  [i \in 1..Len(freq) |-> ChartLine(freq[i])]

\* concatenation of the strings of a sequence
RECURSIVE Concat(_)
Concat(ss) == IF ss = <<>> THEN <<>> ELSE Head(ss) \o Concat(Tail(ss))

\* Diagram.save_report: everything f.write() is given, in order
save_report(u) ==
  LET items == CounterMostCommonAll(filtered_frequency(u))
  IN  Concat([i \in 1..Len(items) |->
                ReportLine(items[i], save_width) \o <<"\n">>])

\* open(filename, "w") on an existing or new file: the old content is dropped
OpenAppend(old, text) == IF old = None THEN Some(text) ELSE Some(old[1] \o text)
OpenWrite(old, text) == Some(text)

\* max(words, key=len): the first word of maximal length
MaxByLenLast(words) ==
  words[CHOOSE i \in 1..Len(words) :
          /\ \A j \in 1..Len(words) : Len(words[j]) <= Len(words[i])
          /\ \A j \in (i + 1)..Len(words) : Len(words[j]) < Len(words[i])]

MaxByLen(words) ==
  words[CHOOSE i \in 1..Len(words) :
          /\ \A j \in 1..Len(words) : Len(words[j]) <= Len(words[i])
          /\ \A j \in 1..(i - 1) : Len(words[j]) < Len(words[i])]

\* min(words, key=len): the first word of minimal length
MinByLen(words) ==
  words[CHOOSE i \in 1..Len(words) :
          /\ \A j \in 1..Len(words) : Len(words[j]) >= Len(words[i])
          /\ \A j \in 1..(i - 1) : Len(words[j]) > Len(words[i])]

\* Diagram.word_lengths
word_lengths(u) ==
  LET words == NotStopWords(split(clean_user(u)))
  IN  IF words = <<>>
      THEN [longest |-> None, shortest |-> None]
      ELSE [longest |-> Some(MaxByLen(words)), shortest |-> Some(MinByLen(words))]

-----------------------------------------------------------------------------
(* The inputs: every sentence of at most MaxTokens words over Words, laid  *)
(* out with each of the Layouts, and the sentences of the Corpus.          *)

Fox == <<"F","o","x">>
IS == <<"I","S">>
car == <<"c","a","r">>
Words == {Fox, IS, car}

Layouts ==
  { [lead |-> <<>>, sep |-> <<" ">>, trail |-> <<>>],
    [lead |-> <<" ", " ">>, sep |-> <<" ", "\t">>, trail |-> <<"\t", " ">>] }

RECURSIVE Join(_, _)
Join(words, sep) ==
  IF words = <<>> THEN <<>>
  ELSE IF Len(words) = 1 THEN words[1]
       ELSE words[1] \o sep \o Join(Tail(words), sep)

Sentences == UNION {[1..k -> Words] : k \in 0..MaxTokens}

Generated ==
  {l.lead \o Join(ws, l.sep) \o l.trail : l \in Layouts, ws \in Sentences}

FoxScenario ==
  <<"F","o","x"," ","I","S"," ","i","n"," ","a"," ","O","r","a","n","g","e"," ","c","a","r">>
Hello ==
  <<"H","e","l","l","o">>
FoxTest ==
  <<"F","o","x"," ","i","s"," ","i","n"," ","o","r","a","n","g","e"," ","c","a","r">>
TieScenario ==
  <<"t","h","e"," ","f","o","x"," ","c","a","r"," ","C","a","r"," ","t","h","e">>
LongScenario ==
  <<"U","n","c","o","p","y","r","i","g","h","t","a","b","l","e"," ","i","n","t","e","r","n","a","t","i","o","n","a","l","i","z","e"," ","f","o","x"," ","I","n","t","e","r","n","a","t","i","o","n","a","l","i","z","e">>
TenScenario ==
  <<"g","o"," ","G","O"," ","g","o"," ","g","o"," ","g","o"," ","g","o"," ","g","o"," ","G","o"," ","g","o"," ","g","o"," ","g","o">>

Corpus == {FoxScenario, Hello, FoxTest, TieScenario, LongScenario, TenScenario}

Inputs == Generated \cup Corpus

NValues == (0 - 1)..MaxN
ReportTxt == "report.txt"
NoSuchDir == "/no/such/dir/report.txt"
Filenames == {ReportTxt, NoSuchDir}
Writable == {ReportTxt}

-----------------------------------------------------------------------------
(* The operations.                                                         *)

Returns(name, given, value, lines) ==
  /\ op' = name
  /\ arg' = given
  /\ ret' = value
  /\ raised' = NoException
  /\ printed' = lines

Raises(name, given, exc) ==
  /\ op' = name
  /\ arg' = given
  /\ ret' = None
  /\ raised' = exc
  /\ printed' = <<>>

Init ==
  /\ \E s \in Inputs :
       /\ user = init_user(s)
       /\ arg = s
  /\ op = "__init__"
  /\ ret = None
  /\ raised = NoException
  /\ printed = <<>>
  /\ fs = [f \in Writable |-> None]
  /\ stdin = TRUE
  /\ existed = FALSE

\* take_input_string, input() delivering a line
Call_take_input_string ==
  /\ stdin
  /\ \E line \in Inputs :
       /\ user' = input_user(line)
       /\ Returns("take_input_string", line, user', <<>>)
  /\ existed' = FALSE
  /\ UNCHANGED <<fs, stdin>>

\* take_input_string, input() at the end of the stream: EOFError leaves
\* the assignment undone
AfterEOFEmpty(u) == <<>>
AfterEOF(u) == u

Call_take_input_string_eof ==
  /\ user' = AfterEOF(user)
  /\ Raises("take_input_string", None, EOFError)
  /\ stdin' = FALSE
  /\ existed' = FALSE
  /\ UNCHANGED fs

Query(name, given, value, lines) ==
  /\ Returns(name, given, value, lines)
  /\ existed' = FALSE
  /\ UNCHANGED <<user, fs, stdin>>

Call_clean_user == Query("clean_user", None, clean_user(user), <<>>)

Call_word_frequency == Query("word_frequency", None, word_frequency(user), <<>>)

Call_most_common ==
  \E n \in NValues \cup {most_common_default} :
    Query("most_common", n, most_common(user, n), <<>>)

Call_stats == Query("stats", None, stats(user), <<>>)

Call_report == Query("report", None, None, report(user))

Call_filtered_frequency ==
  Query("filtered_frequency", None, filtered_frequency(user), <<>>)

Call_bar_chart ==
  \E n \in NValues \cup {bar_chart_default} :
    Query("bar_chart", n, None, bar_chart(user, n))

Call_word_lengths == Query("word_lengths", None, word_lengths(user), <<>>)

\* save_report(filename), open() succeeding
Call_save_report ==
  \E filename \in Writable :
    /\ fs' = [fs EXCEPT ![filename] = OpenWrite(fs[filename], save_report(user))]
    /\ existed' = (fs[filename] # None /\ fs[filename] # Some(<<>>))
    /\ Returns("save_report", filename, None, <<>>)
    /\ UNCHANGED <<user, stdin>>

\* save_report(filename), open() failing: nothing is written
Call_save_report_fails ==
  \E filename \in Filenames \ Writable :
    /\ Raises("save_report", filename, OSError)
    /\ existed' = FALSE
    /\ UNCHANGED <<user, fs, stdin>>

Next ==
  \/ Call_take_input_string
  \/ Call_take_input_string_eof
  \/ Call_clean_user
  \/ Call_word_frequency
  \/ Call_most_common
  \/ Call_stats
  \/ Call_report
  \/ Call_filtered_frequency
  \/ Call_bar_chart
  \/ Call_word_lengths
  \/ Call_save_report
  \/ Call_save_report_fails

Spec == Init /\ [][Next]_vars

-----------------------------------------------------------------------------
(* What the properties are stated with: the specification's notions,      *)
(* defined without the operators of the program above.                     *)

\* trim(s): s between its first and its last non-whitespace character
Trim(s) ==
  LET solid == {i \in 1..Len(s) : s[i] \notin Whitespace}
  IN  IF solid = {} THEN <<>>
      ELSE SubSeq(s, CHOOSE i \in solid : \A j \in solid : i <= j,
                     CHOOSE i \in solid : \A j \in solid : j <= i)

\* lowercase(s)
Lowercase(s) ==
  [i \in 1..Len(s) |->
     IF \E k \in 1..26 : UpperCase[k] = s[i]
     THEN LowerCase[CHOOSE k \in 1..26 : UpperCase[k] = s[i]]
     ELSE s[i]]

\* where the whitespace-delimited tokens of s start
TokenStarts(s) ==
  {i \in 1..Len(s) : s[i] \notin Whitespace /\ (i = 1 \/ s[i - 1] \in Whitespace)}

\* the token of s that starts at i
TokenAt(s, i) ==
  SubSeq(s, i, CHOOSE j \in i..Len(s) :
                 /\ \A k \in i..j : s[k] \notin Whitespace
                 /\ (j = Len(s) \/ s[j + 1] \in Whitespace))

TokenSet(s) == {TokenAt(s, i) : i \in TokenStarts(s)}

\* how often w is a token of s, and where it is one first
Occurrences(s, w) == Cardinality({i \in TokenStarts(s) : TokenAt(s, i) = w})
FirstAt(s, w) ==
  CHOOSE i \in TokenStarts(s) :
    TokenAt(s, i) = w /\ \A j \in TokenStarts(s) : TokenAt(s, j) = w => i <= j

RECURSIVE SumCounts(_)
SumCounts(cnt) == IF cnt = <<>> THEN 0 ELSE Head(cnt)[2] + SumCounts(Tail(cnt))

Keys(cnt) == {cnt[i][1] : i \in 1..Len(cnt)}
KeySeq(cnt) == [i \in 1..Len(cnt) |-> cnt[i][1]]

RECURSIVE IsSubsequence(_, _)
IsSubsequence(xs, ys) ==
  IF xs = <<>> THEN TRUE
  ELSE IF ys = <<>> THEN FALSE
       ELSE IF Head(xs) = Head(ys) THEN IsSubsequence(Tail(xs), Tail(ys))
            ELSE IsSubsequence(xs, Tail(ys))

HasUpper(s) == \E i \in 1..Len(s) : \E k \in 1..26 : UpperCase[k] = s[i]

-----------------------------------------------------------------------------
(* C1. normalized() is lowercase(trim(RawInput)), and normalizing its     *)
(* result again changes nothing.                                           *)
C1_Normalized ==
  op = "clean_user" =>
    /\ ret = Lowercase(Trim(user))
    /\ clean_user(ret) = ret

\* a raw input with capitals and surrounding whitespace was normalized
C1_Witness ==
  /\ op = "clean_user"
  /\ HasUpper(user)
  /\ user # <<>> /\ user[1] \in Whitespace /\ user[Len(user)] \in Whitespace
  /\ ret # <<>> /\ Len(ret) < Len(user)

C3_CountsSumToTokens ==
  op = "word_frequency" =>
    /\ SumCounts(ret) = Cardinality(TokenStarts(clean_user(user)))
    /\ (TokenStarts(user) = {} => ret = <<>>)

\* a word counted twice beside another word
C3_Witness ==
  /\ op = "word_frequency"
  /\ Len(ret) >= 2
  /\ \E i \in 1..Len(ret) : ret[i][2] >= 2

(* C4. most_common(n) is the first n entries of the vocabulary ordered by *)
(* descending count, equal counts in order of first occurrence: its       *)
(* length is min(n, unique_words) for n >= 0 and 0 for n <= 0, and it is  *)
(* a subsequence of most_common(m) for every m > n.                       *)
Precedes(s, x, y) ==
  \/ x[2] > y[2]
  \/ x[2] = y[2] /\ FirstAt(s, x[1]) < FirstAt(s, y[1])

C4_MostCommon ==
  op = "most_common" =>
    LET s == clean_user(user)
        n == arg
    IN  /\ Len(ret) = IF n <= 0 THEN 0 ELSE Min(n, Cardinality(TokenSet(s)))
        /\ \A i \in 1..Len(ret) :
             /\ ret[i][1] \in TokenSet(s)
             /\ ret[i][2] = Occurrences(s, ret[i][1])
        /\ \A i, j \in 1..Len(ret) : i < j => Precedes(s, ret[i], ret[j])
        /\ n > 0 =>
             \A w \in TokenSet(s) \ Keys(ret) :
               \A i \in 1..Len(ret) : Precedes(s, ret[i], <<w, Occurrences(s, w)>>)
        /\ \A m \in NValues \cup {most_common_default} :
             n < m => IsSubsequence(KeySeq(ret), KeySeq(most_common(user, m)))

\* the two most frequent of more than two words, in another order than the
\* words first occur in
C4_Witness ==
  /\ op = "most_common" /\ arg = 2
  /\ Len(ret) = 2
  /\ ret[1][2] = ret[2][2]
  /\ Len(word_frequency(user)) > 2
  /\ ret[2] # word_frequency(user)[2]

(* C5. filtered_frequency() is word_frequency() without the keys of       *)
(* STOP_WORDS: no stop word is a key, whatever its case in the input,     *)
(* every other word keeps its count, and there are no more distinct       *)
(* filtered words than distinct words.                                    *)
C5_Filtered ==
  op = "filtered_frequency" =>
    LET all == word_frequency(user)
    IN  /\ Keys(ret) \cap STOP_WORDS = {}
        /\ \A t \in TokenSet(user) : Lowercase(t) \in STOP_WORDS => Lowercase(t) \notin Keys(ret)
        /\ \A i \in 1..Len(all) :
             all[i][1] \notin STOP_WORDS => \E j \in 1..Len(ret) : ret[j] = all[i]
        /\ \A j \in 1..Len(ret) : \E i \in 1..Len(all) : all[i] = ret[j]
        /\ Len(ret) <= Len(all)

\* a stop word written in capitals was dropped, another word kept
C5_Witness ==
  /\ op = "filtered_frequency"
  /\ IS \in TokenSet(user)
  /\ ret # <<>>
  /\ Len(ret) < Len(word_frequency(user))

\* the tokens of normalized() that are no stop words, in scan order
FilteredTokens(u) ==
  SelectSeq(split(clean_user(u)), LAMBDA w : w \notin STOP_WORDS)

orange == <<"o","r","a","n","g","e">>
fox == <<"f","o","x">>

(* C6. word_lengths() is {longest: None, shortest: None} exactly when no  *)
(* filtered token is left; otherwise longest is the first token of        *)
(* maximal length and shortest the first token of minimal length, so      *)
(* "Fox IS in a Orange car" gives orange and fox.                         *)
C6_WordLengths ==
  op = "word_lengths" =>
    LET toks == FilteredTokens(user)
        N == Len(toks)
    IN  /\ (ret.longest = None) <=> (N = 0)
        /\ (ret.shortest = None) <=> (N = 0)
        /\ N > 0 =>
             /\ \E i \in 1..N :
                  /\ ret.longest = Some(toks[i])
                  /\ \A j \in 1..N : Len(toks[j]) <= Len(toks[i])
                  /\ \A j \in 1..(i - 1) : Len(toks[j]) < Len(toks[i])
             /\ \E i \in 1..N :
                  /\ ret.shortest = Some(toks[i])
                  /\ \A j \in 1..N : Len(toks[j]) >= Len(toks[i])
                  /\ \A j \in 1..(i - 1) : Len(toks[j]) > Len(toks[i])
        /\ user = FoxScenario =>
             ret = [longest |-> Some(orange), shortest |-> Some(fox)]

\* two tokens tie for the shortest and the first of them is returned
C6_Witness ==
  /\ op = "word_lengths"
  /\ user = FoxScenario
  /\ ret.longest = Some(orange)
  /\ ret.shortest = Some(fox)

\* reading a text file line by line: every "\n" ends a line
RECURSIVE ReadLinesScan(_, _, _)
ReadLinesScan(text, cur, acc) ==
  IF text = <<>> THEN IF cur = <<>> THEN acc ELSE Append(acc, cur)
  ELSE IF Head(text) = "\n" THEN ReadLinesScan(Tail(text), <<>>, Append(acc, cur))
       ELSE ReadLinesScan(Tail(text), Append(cur, Head(text)), acc)

ReadLines(text) == ReadLinesScan(text, <<>>, <<>>)

\* the fields of a line: its whitespace-delimited tokens from left to right
RECURSIVE FieldsFrom(_, _)
FieldsFrom(line, starts) ==
  IF starts = {} THEN <<>>
  ELSE LET i == CHOOSE k \in starts : \A j \in starts : k <= j
       IN  <<TokenAt(line, i)>> \o FieldsFrom(line, starts \ {i})

Fields(line) == FieldsFrom(line, TokenStarts(line))

IsNumber(str) ==
  str # <<>> /\ \A i \in 1..Len(str) : \E d \in 1..10 : Digits[d] = str[i]

RECURSIVE ParseInt(_)
ParseInt(str) ==
  IF str = <<>> THEN 0
  ELSE 10 * ParseInt(SubSeq(str, 1, Len(str) - 1))
       + (CHOOSE d \in 1..10 : Digits[d] = str[Len(str)]) - 1

Malformed == <<"malformed line">>

\* a line of the report read back as a <<word, count>> pair
ParseLine(line) ==
  LET f == Fields(line)
  IN  IF Len(f) = 2 /\ IsNumber(f[2]) THEN <<f[1], ParseInt(f[2])>> ELSE Malformed

ParseReport(text) ==
  LET lines == ReadLines(text)
  IN  [i \in 1..Len(lines) |-> ParseLine(lines[i])]

(* C7. After a successful save_report(path), the lines of the file parsed *)
(* back into (word, count) pairs are filtered_frequency().most_common(),  *)
(* in that order, also for words longer than the 15-character field.      *)
C7_RoundTrip ==
  (op = "save_report" /\ raised = NoException) =>
    /\ fs[arg] # None
    /\ ParseReport(fs[arg][1]) = CounterMostCommonAll(filtered_frequency(user))

\* a saved report with a word longer than the field and a word shorter
C7_Witness ==
  /\ op = "save_report" /\ raised = NoException
  /\ LET pairs == ParseReport(fs[arg][1])
     IN  /\ \E i \in 1..Len(pairs) : Len(pairs[i][1]) > save_width
         /\ \E i \in 1..Len(pairs) : Len(pairs[i][1]) < save_width

\* the lines of the report of raw input u
ExpectedReport(u) ==
  LET items == CounterMostCommonAll(filtered_frequency(u))
  IN  [i \in 1..Len(items) |->
         items[i][1] \o Spaces(Max(0, save_width - Len(items[i][1])))
           \o <<" ">> \o Str(items[i][2])]

(* C8. The report file is overwritten, never appended to: a successful    *)
(* save_report leaves in the file the lines of the report of the current  *)
(* RawInput and nothing else (an empty file when no filtered word is      *)
(* left), and no other operation changes the file.                        *)
C8_Overwritten ==
  [][IF op' = "save_report" /\ raised' = NoException
     THEN /\ fs'[arg'] # None
          /\ ReadLines(fs'[arg'][1]) = ExpectedReport(user')
          /\ FilteredTokens(user') = <<>> => fs'[arg'] = Some(<<>>)
          /\ user' = user
     ELSE fs' = fs]_vars

\* a report was saved over a non-empty file, for an input with no filtered word
C8_Witness ==
  /\ op = "save_report" /\ raised = NoException
  /\ existed
  /\ fs[arg] = Some(<<>>)

\* printed has one line per distinct word, in descending-frequency order,
\* and line i is the word's field, a space and the count
ReportPrinted(u, lines, Field(_)) ==
  LET s == clean_user(u)
      items == CounterMostCommonAll(word_frequency(u))
  IN  /\ Len(lines) = Cardinality(TokenSet(s))
      /\ Len(items) = Len(lines)
      /\ \A i \in 1..Len(items) :
           /\ items[i][1] \in TokenSet(s)
           /\ items[i][2] = Occurrences(s, items[i][1])
           /\ lines[i] = Field(items[i][1]) \o <<" ">> \o Str(items[i][2])
      /\ \A i, j \in 1..Len(items) : i < j => Precedes(s, items[i], items[j])

\* the word in a field of exactly report_width characters
FieldExact(w) == SubSeq(w \o Spaces(report_width), 1, report_width)

\* the word in a field of at least report_width characters
FieldAtLeast(w) == w \o Spaces(Max(0, report_width - Len(w)))

(* C9, as stated. report() prints one line per distinct word, in          *)
(* descending-frequency order without limit, the word padded or truncated *)
(* to a field of exactly 15 characters, then the count.                   *)
C9_FieldAlways15 ==
  op = "report" => ReportPrinted(user, printed, FieldExact)

(* C9, amended. report() prints one line per distinct word, in            *)
(* descending-frequency order without limit; the word is followed by      *)
(* spaces up to 15 characters and is written in full when it is longer,   *)
(* so the field is max(15, len(word)) characters wide, then the count.    *)
C9_FieldAtLeast15 ==
  op = "report" => ReportPrinted(user, printed, FieldAtLeast)

\* a report with a word longer than the field
C9_Witness ==
  /\ op = "report"
  /\ \E w \in TokenSet(clean_user(user)) : Len(w) > report_width
  /\ \E i \in 1..Len(printed) : Len(printed[i]) > report_width + 2

(* C10. At the end of the input stream take_input_string fails with       *)
(* EOFError, which it lets through, and the failed call leaves RawInput   *)
(* as it was; once the stream is exhausted every call fails so.           *)
C10_InputExhausted ==
  [][op' = "take_input_string" =>
       /\ ~stdin => raised' = EOFError
       /\ raised' = EOFError => user' = user /\ ret' = None /\ ~stdin']_vars

\* a read failed on an object holding a non-empty input
C10_Witness ==
  /\ op = "take_input_string" /\ raised = EOFError
  /\ ~stdin
  /\ user # <<>>

====
